---- MODULE Spec2Model ----
(***************************************************************************)
(* A model of rbspy's target-state bootstrap and trace-acquisition loop    *)
(* (src/core/initialize.rs): get_process_ruby_state, initialize,           *)
(* StackTraceGetter::get_trace and its helpers, run against a target       *)
(* process whose behaviour (reads, locks, probes) is nondeterministic.     *)
(***************************************************************************)
EXTENDS Integers, Sequences, FiniteSets, TLC

(***************************************************************************)
(* Bounds of the model.                                                    *)
(***************************************************************************)
\* the process id of the target (any id: the model has one target)
TargetPid == 1
MaxReinit == 1
MaxThreads == 2
MaxAddr == 1
\* the largest buffer a caller of the C ABI passes
MaxBuf == 64
\* the nested calls of copy_error the stack of the calling thread has room for
MaxStack == 2

(***************************************************************************)
(* Program constants.                                                      *)
(***************************************************************************)
\* the retry ceiling of get_process_ruby_state: `if i > 100`
RetryCeiling == 100

\* addresses in the target; 0 is the "look it up later" slot of ruby 3+
Addrs == 0..MaxAddr

\* Option<T>: None is the empty sequence, Some(x) the one-element sequence
None == <<>>
Some(x) == <<x>>

(***************************************************************************)
(* Version strings.  A version is a Rust string; the model keeps its bytes *)
(* so that `version.as_str() >= "3.0.0"` is the byte-wise lexicographic    *)
(* comparison of str.                                                      *)
(***************************************************************************)
\* keys of the two dispatch tables that the model uses
SupportedVersions == {"2.7.5", "3.0.0"}
\* strings that are a key of neither table
UnsupportedVersions == {"2.7.8", "3.2.0"}
Versions == SupportedVersions \cup UnsupportedVersions

VersionBytes(v) ==
    CASE v = "2.7.5" -> <<50, 46, 55, 46, 53>>
      [] v = "2.7.8" -> <<50, 46, 55, 46, 56>>
      [] v = "3.0.0" -> <<51, 46, 48, 46, 48>>
      [] v = "3.2.0" -> <<51, 46, 50, 46, 48>>

RECURSIVE BytesGE(_, _)
BytesGE(a, b) ==
    IF b = <<>> THEN TRUE
    ELSE IF a = <<>> THEN FALSE
    ELSE IF Head(a) > Head(b) THEN TRUE
    ELSE IF Head(a) < Head(b) THEN FALSE
    ELSE BytesGE(Tail(a), Tail(b))

\* version.as_str() >= "3.0.0"
IsRuby3Plus(v) == BytesGE(VersionBytes(v), VersionBytes("3.0.0"))


(***************************************************************************)
(* State.                                                                  *)
(***************************************************************************)
VARIABLES
    alive,      \* the target process has not exited
    getter,     \* the StackTraceGetter, or NoGetter before initialize succeeds
    pc,         \* position of the call in progress ("idle": none)
    frozen,     \* the target is frozen by a lock the getter holds
    boot,       \* locals of the running get_process_ruby_state, and its record
    call,       \* locals of the running get_trace, and its record
    result,     \* what the last finished call returned
    registry,   \* HASHMAP: the getter registered for each pid, or NoGetter
    mutex,      \* the caller that holds the lock of HASHMAP, or "free"
    callers,    \* position and locals of each thread's C ABI call in progress
    last        \* the C ABI call that returned last: arguments, buffers, value

corevars == <<alive, getter, pc, frozen, boot, call, result>>
abivars == <<registry, mutex, callers, last>>
vars == <<alive, getter, pc, frozen, boot, call, result, registry, mutex, callers, last>>

NoGetter == [ready |-> FALSE]
NoCall == [kind |-> "NoCall"]

\* Result values of the calls
OkGetter == [kind |-> "OkGetter"]
OkTrace(opt) == [kind |-> "Ok", val |-> opt]
Err(e, ctx) == [kind |-> "Err", e |-> e, ctx |-> ctx]
Panic(v) == [kind |-> "Panic", version |-> v]

\* anyhow's .context(c) on a Result
Context(r, c) == IF r.kind = "Err" THEN Err(r.e, Append(r.ctx, c)) ELSE r

(***************************************************************************)
(* get_process_ruby_state: one iteration of its loop, as a function of the *)
(* retry counter and of what the target answered in that iteration.        *)
(***************************************************************************)
\* root causes of a failed get_ruby_version
VersionErrors ==
    {"IoPermissionDenied", "AddressFinderPermissionDenied", "NoSuchProcess", "NotReady"}

\* the answer of a call that the iteration does not reach
NotAsked == [err |-> "NotAsked"]

\* what an address lookup of the address finder can answer
LookupAnswers(isAlive) ==
    (IF isAlive THEN {[ok |-> a] : a \in Addrs \ {0}} ELSE {}) \cup {[err |-> "NotFound"]}

\* what get_ruby_version can answer
VersionAnswers(isAlive) ==
    (IF isAlive THEN {[ok |-> v] : v \in Versions} ELSE {})
        \cup {[err |-> c] : c \in VersionErrors}

IsOk(r) == "ok" \in DOMAIN r

\* match version { "1.9.1" => ..., _ => panic!(..) }
IsSupportedKey(version) == version \in SupportedVersions

\* what the target can answer in one iteration: whether the handle opens, the
\* version read (asked without force_version), the current-thread lookup (asked
\* for a supported version below 3.0.0), the VM lookup, and the global-symbols
\* lookup (its answer is used when the other two succeed)
AnswersFor(isAlive, version, verAns) ==
    LET look == LookupAnswers(isAlive)
        asked == [open |-> TRUE, ver |-> verAns, cta |-> NotAsked, vm |-> NotAsked,
                  gs |-> NotAsked]
    IN
    IF ~IsRuby3Plus(version) /\ ~IsSupportedKey(version) THEN {asked}
    ELSE LET ctas == IF IsRuby3Plus(version) THEN {NotAsked} ELSE look
             both(c, m) == (c = NotAsked \/ IsOk(c)) /\ IsOk(m) /\ IsSupportedKey(version)
         IN
         UNION {{[asked EXCEPT !.cta = c, !.vm = m] : m \in {x \in look : ~both(c, x)}}
                  \cup UNION {{[asked EXCEPT !.cta = c, !.vm = m, !.gs = g] : g \in look} :
                                m \in {x \in look : both(c, x)}} :
                c \in ctas}

BootAnswers(isAlive, fv) ==
    {[open |-> FALSE, ver |-> NotAsked, cta |-> NotAsked, vm |-> NotAsked, gs |-> NotAsked]}
    \cup (IF fv # None
          THEN AnswersFor(isAlive, fv[1], NotAsked)
          ELSE {[open |-> TRUE, ver |-> v, cta |-> NotAsked, vm |-> NotAsked,
                 gs |-> NotAsked] : v \in {x \in VersionAnswers(isAlive) : ~IsOk(x)}}
               \cup UNION {AnswersFor(isAlive, v.ok, v) :
                              v \in {x \in VersionAnswers(isAlive) : IsOk(x)}})

\* let version = match force_version { Some(ref v) => v.clone(), None => get_ruby_version(..) }
VersionResult(fv, ans) == IF fv # None THEN [ok |-> fv[1]] ELSE ans.ver

\* faulty variant: the version is read from the target whatever force_version is
ReadsVersion_Always(fv) == TRUE

\* get_ruby_version(&process) is evaluated in the None arm of that match only
ReadsVersion(fv) == fv = None

\* the version-read branch: i += 1; if i > 100 { return Err(..) }
VersionRetryExhausted(i) == i + 1 > RetryCeiling

\* the address branch: if i > 100 { return Err(..) }; i += 1
AddressRetryExhausted(i) == i > RetryCeiling

\* faulty variant: the comparison is inverted
CurrentThreadAddress_Inverted(version, ans) ==
    IF ~IsRuby3Plus(version) THEN [ok |-> 0] ELSE ans.cta

\* let current_thread_address = if version >= "3.0.0" { Ok(0) } else { finder }
CurrentThreadAddress(version, ans) ==
    IF IsRuby3Plus(version) THEN [ok |-> 0] ELSE ans.cta

\* whether address_finder::current_thread_address is called for this version
FinderInvoked(version) == ~IsRuby3Plus(version)

GetProcessRubyStateIter(i, pid, fv, ans) ==
    LET base == [i |-> i, slept |-> FALSE, verRead |-> FALSE, opened |-> ans.open,
                 finder |-> FALSE, finderAnswer |-> NotAsked, version |-> None]
    IN
    IF ~ans.open
    THEN [base EXCEPT !.i = i] @@ [out |-> "err", e |-> [err |-> "NoProcess", pid |-> pid]]
    ELSE
    LET vres == VersionResult(fv, ans)
        b1 == [base EXCEPT !.verRead = ReadsVersion(fv)]
    IN
    IF ~IsOk(vres)
    THEN IF VersionRetryExhausted(i)
         THEN [b1 EXCEPT !.i = i + 1] @@
              [out |-> "err",
               e |-> IF vres.err = "IoPermissionDenied"
                     THEN [err |-> "PermissionsHint", cause |-> vres.err]
                     ELSE [err |-> "NoRubyVersion", cause |-> vres.err]]
         ELSE [b1 EXCEPT !.i = i + 1, !.slept = TRUE] @@ [out |-> "sleep"]
    ELSE
    LET version == vres.ok
        b2 == [b1 EXCEPT !.version = Some(version), !.finder = FinderInvoked(version),
                         !.finderAnswer = IF FinderInvoked(version) THEN ans.cta
                                          ELSE NotAsked]
    IN
    IF FinderInvoked(version) /\ ~IsSupportedKey(version)
    THEN [b2 EXCEPT !.finder = FALSE, !.finderAnswer = NotAsked] @@
         [out |-> "panic", panic |-> Panic(version)]
    ELSE
    LET cta == CurrentThreadAddress(version, ans)
    IN
    IF IsOk(cta) /\ IsOk(ans.vm)
    THEN IF ~IsSupportedKey(version)
         THEN b2 @@ [out |-> "panic", panic |-> Panic(version)]
         ELSE b2 @@ [out |-> "ok",
                     current_thread_addr_location |-> cta.ok,
                     ruby_vm_addr_location |-> ans.vm.ok,
                     global_symbols_addr_location |->
                         IF IsOk(ans.gs) THEN Some(ans.gs.ok) ELSE None,
                     stack_trace_function |-> version]
    ELSE IF AddressRetryExhausted(i)
         THEN b2 @@ [out |-> "err", e |-> [err |-> "NoProcessState", version |-> version]]
         ELSE [b2 EXCEPT !.i = i + 1, !.slept = TRUE] @@ [out |-> "sleep"]

(***************************************************************************)
(* The C ABI: the threads of the host that call it, and the pids they name. *)
(***************************************************************************)
Callers == {"c1", "c2"}
Pids == {TargetPid, TargetPid + 1}

\* the literal written when the message does not fit
ErrorBufferTooSmall == "error buffer is too small"

\* a thread that is in no C ABI call, and the locals of a call
Idle ==
    [pc |-> "idle", op |-> "none", pid |-> TargetPid, blocking |-> 0, len |-> 0,
     err_len |-> 0, getter |-> NoGetter, err_str |-> "", msg |-> "", depth |-> 0,
     trace |-> None, cwd |-> "", cause |-> None]

\* no C ABI call has returned since the last one was entered
NoReturn ==
    [op |-> "none", pid |-> TargetPid, ret |-> 0, out |-> "", err |-> "", len |-> 0,
     err_len |-> 0, msg |-> "", trace |-> None, cwd |-> "", getter |-> NoGetter,
     cause |-> None]

\* lazy_static! { static ref HASHMAP: Mutex<HashMap<Pid, StackTraceGetter>> = .. }
EmptyRegistry == [p \in Pids |-> NoGetter]

(***************************************************************************)
(* Initial state: no getter, no call in progress, a live target, an empty  *)
(* registry.                                                               *)
(***************************************************************************)
NoBoot ==
    [caller |-> "none", pid |-> TargetPid, force_version |-> None,
     i |-> 0, sleeps |-> 0, verReads |-> 0, iters |-> 0, last |-> [out |-> "none"]]

NoTrace ==
    [attempt |-> 0, rc0 |-> 0, ctal0 |-> 0, gate |-> "none", nlock |-> 0, nread |-> 0,
     nboot |-> 0, nprobe |-> 0, unfrozenReads |-> 0, unfrozenStackReads |-> 0,
     aliveAtStart |-> TRUE, exe |-> "none",
     out |-> NoCall, r1 |-> NoCall, r2 |-> NoCall]

Init ==
    /\ alive = TRUE
    /\ getter = NoGetter
    /\ pc = "idle"
    /\ frozen = FALSE
    /\ boot = NoBoot
    /\ call = NoTrace
    /\ result = NoCall
    /\ registry = EmptyRegistry
    /\ mutex = "free"
    /\ callers = [c \in Callers |-> Idle]
    /\ last = NoReturn

\* the target exits (is killed) at any moment
TargetExit ==
    /\ alive
    /\ alive' = FALSE
    /\ UNCHANGED <<getter, pc, frozen, boot, call, result>>

(***************************************************************************)
(* initialize(pid, lock_process, force_version, on_cpu)                    *)
(***************************************************************************)
StartBoot(caller, pid, fv) ==
    [NoBoot EXCEPT !.caller = caller, !.pid = pid, !.force_version = fv]

\* lock_process and on_cpu are not read before the getter is built: the model
\* draws them there
Initialize(pid, fv) ==
    /\ pc = "idle"
    /\ getter = NoGetter
    /\ pc' = "boot"
    /\ boot' = StartBoot("initialize", pid, fv)
    /\ call' = NoTrace
    /\ result' = NoCall
    /\ UNCHANGED <<alive, getter, frozen>>

\* Ok(StackTraceGetter { .., reinit_count: 0, lock_process, force_version, on_cpu })
NewGetter(b, st, lp, oc) ==
    [ready |-> TRUE,
     pid |-> b.pid,
     current_thread_addr_location |-> st.current_thread_addr_location,
     ruby_vm_addr_location |-> st.ruby_vm_addr_location,
     global_symbols_addr_location |-> st.global_symbols_addr_location,
     stack_trace_function |-> st.stack_trace_function,
     reinit_count |-> 0,
     lock_process |-> lp,
     force_version |-> b.force_version,
     on_cpu |-> oc]

\* faulty variant: the count is bumped once per assignment block and once more
BumpReinitCount_Twice(n) == n + 2

\* self.reinit_count += 1
BumpReinitCount(n) == n + 1

\* reinitialize: the five assignments and the count, after a successful bootstrap
Reinitialized(g, st) ==
    [g EXCEPT !.current_thread_addr_location = st.current_thread_addr_location,
              !.ruby_vm_addr_location = st.ruby_vm_addr_location,
              !.global_symbols_addr_location = st.global_symbols_addr_location,
              !.stack_trace_function = st.stack_trace_function,
              !.reinit_count = BumpReinitCount(g.reinit_count)]

\* faulty variant: the failed attempt is counted
ReinitializeFailed_Counted(g) == [g EXCEPT !.reinit_count = BumpReinitCount(@)]

\* reinitialize: the `?` on get_process_ruby_state returns before any assignment
ReinitializeFailed(g) == g

\* the record of a bootstrap after one more iteration
\* (a successful return keeps the returned state and drops the loop's counters)
BootAfter(b, st) ==
    IF st.out = "ok"
    THEN [b EXCEPT !.i = 0, !.sleeps = 0, !.verReads = 0, !.iters = 0,
                   !.last = [st EXCEPT !.i = 0]]
    ELSE [b EXCEPT !.i = st.i,
                   !.sleeps = IF st.slept THEN @ + 1 ELSE @,
                   !.verReads = IF st.verRead THEN @ + 1 ELSE @,
                   !.iters = @ + 1,
                   !.last = IF st.out = "sleep" THEN [out |-> "sleep"] ELSE st]

\* one iteration of the loop of get_process_ruby_state, and, when it returns,
\* what its caller (initialize or reinitialize) does with the outcome
BootIteration ==
    /\ pc = "boot"
    /\ \E st \in {GetProcessRubyStateIter(boot.i, boot.pid, boot.force_version, ans) :
                     ans \in BootAnswers(alive, boot.force_version)} :
         LET unfrozen == IF st.verRead /\ ~frozen THEN 1 ELSE 0
         IN
         /\ boot' = BootAfter(boot, st)
         /\ call' = IF boot.caller = "reinitialize"
                     THEN [call EXCEPT !.unfrozenReads = IF @ + unfrozen > 1 THEN 1 ELSE @ + unfrozen]
                     ELSE call
         /\ CASE st.out = "sleep" ->
                  /\ pc' = "boot_sleep"
                  /\ UNCHANGED <<getter, result>>
              [] st.out = "panic" ->
                  /\ pc' = "idle"
                  /\ result' = st.panic
                  /\ UNCHANGED getter
              [] st.out = "err" ->
                  /\ pc' = "idle"
                  /\ result' = IF boot.caller = "initialize"
                                THEN Err(st.e, <<"get ruby VM state">>)
                                ELSE Err(st.e, <<"get ruby VM state", "reinitialize">>)
                  /\ getter' = IF boot.caller = "reinitialize"
                                THEN ReinitializeFailed(getter)
                                ELSE getter
              [] st.out = "ok" /\ boot.caller = "initialize" ->
                  /\ pc' = "idle"
                  /\ \E lp \in BOOLEAN, oc \in BOOLEAN :
                        getter' = NewGetter(boot, st, lp, oc)
                  /\ result' = OkGetter
              [] st.out = "ok" /\ boot.caller = "reinitialize" ->
                  /\ pc' = "lock"
                  /\ getter' = Reinitialized(getter, st)
                  /\ UNCHANGED result
    /\ UNCHANGED <<alive, frozen>>

\* std::thread::sleep(Duration::from_millis(1)) returns; the loop goes on
BootWake ==
    /\ pc = "boot_sleep"
    /\ pc' = "boot"
    /\ UNCHANGED <<alive, getter, frozen, boot, call, result>>

(***************************************************************************)
(* StackTraceGetter::get_trace                                             *)
(***************************************************************************)
RECURSIVE SeqsUpTo(_, _)
SeqsUpTo(S, n) ==
    IF n = 0 THEN {<<>>}
    ELSE SeqsUpTo(S, n - 1) \cup
         {Append(q, x) : q \in {r \in SeqsUpTo(S, n - 1) : Len(r) = n - 1}, x \in S}

\* what self.process.threads() and each thread.active() can answer
ThreadsAnswers ==
    {[err |-> "ThreadsError"]} \cup
    {[ok |-> q] : q \in SeqsUpTo({"active", "inactive", "error"}, MaxThreads)}

\* for thread in threads.iter() { if thread.active()? { return Ok(true) } }; Ok(false)
RECURSIVE AnyActive(_)
AnyActive(threads) ==
    IF threads = <<>> THEN [ok |-> FALSE]
    ELSE IF Head(threads) = "error" THEN [err |-> "ThreadError"]
    ELSE IF Head(threads) = "active" THEN [ok |-> TRUE]
    ELSE AnyActive(Tail(threads))

IsOnCpuOsSpecific(th) == IF IsOk(th) THEN AnyActive(th.ok) ELSE th

\* MemoryCopyError values
InvalidAddressError(a) == [err |-> "InvalidAddressError", addr |-> a]
ProcessEnded == [err |-> "ProcessEnded"]
LockError == [err |-> "Message", what |-> "lock"]

\* what the version's get_stack_trace can return: a trace (whose pid field the
\* reader may or may not have filled in), no trace, or a memory error
ReaderAnswers(isAlive, pid) ==
    (IF isAlive
     THEN {OkTrace(Some([pid |-> o])) : o \in {None, Some(pid)}} \cup {OkTrace(None)}
     ELSE {})
    \cup {Err(InvalidAddressError(a), <<>>) : a \in Addrs}
    \cup {Err(ProcessEnded, <<>>), Err([err |-> "Io"], <<>>)}

\* trace.pid = Some(self.process.pid)
StampPid(trace, pid) == [trace EXCEPT !.pid = Some(pid)]

\* faulty variant: the guard `if addr == self.current_thread_addr_location` is lost
ClassifyFirst_AnyInvalidAddress(out, ctal) ==
    IF out.kind = "Ok" /\ out.val # None THEN "trace"
    ELSE IF out.kind = "Ok" THEN "none"
    ELSE IF out.e.err = "InvalidAddressError" THEN "reinit"
    ELSE "probe"

\* the arms of the match on the first get_trace_from_current_thread()
ClassifyFirst(out, ctal) ==
    IF out.kind = "Ok" /\ out.val # None THEN "trace"
    ELSE IF out.kind = "Ok" THEN "none"
    ELSE IF out.e.err = "InvalidAddressError" /\ out.e.addr = ctal THEN "reinit"
    ELSE "probe"

\* Ok(self.get_trace_from_current_thread().context("get trace from current thread")?)
SecondOutcome(out) == Context(out, "get trace from current thread")

\* faulty variant: the lock is leaked (mem::forget) when the read fails
ReleaseLock_OnSuccessOnly(held, out) == IF out.kind = "Err" THEN held ELSE FALSE

\* the drop of _lock when get_trace_from_current_thread returns
ReleaseLock(held, out) == FALSE

\* if self.on_cpu && !self.is_on_cpu_os_specific()? { return Ok(None) }
\* "off": on_cpu is not set; "error": the ? returned; "inactive": Ok(None) returned
GateDecision(on_cpu, on) ==
    IF ~on_cpu THEN "off"
    ELSE IF ~IsOk(on) THEN "error"
    ELSE IF ~on.ok THEN "inactive"
    ELSE "active"

\* faulty variant: the gate's early return is lost
GateProceeds_Always(decision) == TRUE

\* whether get_trace goes on to get_trace_from_current_thread()
GateProceeds(decision) == decision \in {"off", "active"}

\* the value get_trace returns at the gate
GateResult(decision, on) ==
    IF decision = "error" THEN Err(on, <<>>) ELSE OkTrace(None)

\* faulty variant: `let _ = self.process.lock()` drops the lock at once
Freeze_DroppedAtOnce(locked) == FALSE

\* the target is frozen while the lock returned by self.process.lock() lives
Freeze(locked) == locked

\* get_trace up to its first get_trace_from_current_thread(): the on-CPU gate
GetTraceEnter ==
    /\ pc = "idle"
    /\ getter.ready
    /\ getter.reinit_count < MaxReinit
    /\ boot' = NoBoot
    /\ \E on \in (IF getter.on_cpu
                 THEN {IsOnCpuOsSpecific(th) : th \in ThreadsAnswers}
                 ELSE {NotAsked}) :
         LET d == GateDecision(getter.on_cpu, on)
             c == [NoTrace EXCEPT !.rc0 = getter.reinit_count,
                                  !.ctal0 = getter.current_thread_addr_location,
                                  !.aliveAtStart = alive,
                                  !.gate = d]
         IN
         /\ call' = c
         /\ IF GateProceeds(d)
            THEN pc' = "lock" /\ result' = NoCall
            ELSE pc' = "idle" /\ result' = GateResult(d, on)
    /\ UNCHANGED <<alive, getter, frozen>>

\* what get_trace does with the outcome `out` of an attempt; c is the call's record
Dispatch(out, c) ==
    IF c.attempt = 2
    THEN /\ pc' = "idle"
         /\ result' = SecondOutcome(out)
         /\ call' = [c EXCEPT !.r2 = out]
         /\ UNCHANGED boot
    ELSE
    LET arm == ClassifyFirst(out, getter.current_thread_addr_location)
        c1 == [c EXCEPT !.r1 = out]
    IN
    CASE arm = "trace" ->
           /\ pc' = "idle"
           /\ result' = OkTrace(Some(StampPid(out.val[1], getter.pid)))
           /\ call' = c1
           /\ UNCHANGED boot
      [] arm = "none" ->
           /\ pc' = "idle"
           /\ result' = OkTrace(None)
           /\ call' = c1
           /\ UNCHANGED boot
      [] arm = "reinit" ->
           /\ pc' = "boot"
           /\ boot' = StartBoot("reinitialize", getter.pid, getter.force_version)
           /\ call' = [c1 EXCEPT !.nboot = @ + 1]
           /\ UNCHANGED result
      [] arm = "probe" ->
           /\ pc' = "probe"
           /\ call' = c1
           /\ UNCHANGED <<boot, result>>

\* get_trace_from_current_thread up to the call of the stack trace function:
\* if self.lock_process { _lock = self.process.lock().context(..)? }
AcquireLock ==
    /\ pc = "lock"
    /\ LET c == [call EXCEPT !.attempt = @ + 1, !.out = NoCall] IN
       IF ~getter.lock_process
       THEN /\ pc' = "read"
            /\ call' = c
            /\ UNCHANGED <<frozen, boot, result>>
       ELSE \E locked \in (IF alive THEN BOOLEAN ELSE {FALSE}) :
            IF locked
            THEN /\ pc' = "read"
                 /\ frozen' = Freeze(locked)
                 /\ call' = [c EXCEPT !.nlock = @ + 1]
                 /\ UNCHANGED <<boot, result>>
            ELSE /\ frozen' = frozen
                 /\ Dispatch(Err(LockError,
                                 <<"locking process during stack trace retrieval">>), c)
    /\ UNCHANGED <<alive, getter>>

\* stack_trace_function(current_thread_addr_location, .., &self.process, pid, on_cpu)
ReadStack ==
    /\ pc = "read"
    /\ \E out \in ReaderAnswers(alive, getter.pid) :
         call' = [call EXCEPT !.out = out,
                              !.nread = @ + 1,
                              !.unfrozenStackReads =
                                  IF getter.lock_process /\ ~frozen THEN 1 ELSE @]
    /\ pc' = "exit"
    /\ UNCHANGED <<alive, getter, frozen, boot, result>>

\* get_trace_from_current_thread returns: _lock is dropped, get_trace goes on
ExitAttempt ==
    /\ pc = "exit"
    /\ frozen' = ReleaseLock(frozen, call.out)
    /\ Dispatch(call.out, call)
    /\ UNCHANGED <<alive, getter>>

\* faulty variant: the exe() probe is not consulted
ProbeOutcome_KeepsError(exeOk, e) == e

\* if self.process.exe().is_err() { return Err(ProcessEnded) }; return Err(e)
ProbeOutcome(exeOk, e) == IF ~exeOk THEN Err(ProcessEnded, <<>>) ELSE e

Probe ==
    /\ pc = "probe"
    /\ \E exeOk \in (IF alive THEN BOOLEAN ELSE {FALSE}) :
         /\ result' = ProbeOutcome(exeOk, call.r1)
         /\ call' = [call EXCEPT !.nprobe = @ + 1,
                                 !.exe = IF exeOk THEN "ok" ELSE "err"]
    /\ pc' = "idle"
    /\ UNCHANGED <<alive, getter, frozen, boot>>

\* the core, used directly (recorder/snapshot.rs): the C ABI is not entered
Next ==
    \/ TargetExit /\ UNCHANGED abivars
    \/ /\ \E fv \in {None} \cup {Some(v) : v \in Versions} : Initialize(TargetPid, fv)
       /\ UNCHANGED abivars
    \/ BootIteration /\ UNCHANGED abivars
    \/ BootWake /\ UNCHANGED abivars
    \/ GetTraceEnter /\ UNCHANGED abivars
    \/ AcquireLock /\ UNCHANGED abivars
    \/ ReadStack /\ UNCHANGED abivars
    \/ ExitAttempt /\ UNCHANGED abivars
    \/ Probe /\ UNCHANGED abivars

Spec == Init /\ [][Next]_vars

(***************************************************************************)
(* lib.rs: byte strings, and the rendering of a trace by rbspy_snapshot.   *)
(***************************************************************************)
\* str::find(pat): the byte index, from 0, of the first occurrence of pat in s
Find(s, pat) ==
    LET n == Len(pat)
        hits == {i \in 0..(Len(s) - n) : SubSeq(s, i + 1, i + n) = pat}
    IN
    IF hits = {} THEN None ELSE Some(CHOOSE i \in hits : \A j \in hits : i <= j)

\* s[i..]
SliceFrom(s, i) == SubSeq(s, i + 1, Len(s))

\* impl Display for StackFrame: "{} - {}:{}", name, relative_path, lineno
FrameToString(x) == x.name \o " - " \o x.relative_path \o ":" \o ToString(x.lineno)

\* faulty variant: "/gems/" is looked for before the working directory
Shorten_GemsFirst(s, cwd) ==
    LET g == Find(s, "/gems/") IN
    IF g # None THEN SliceFrom(s, g[1] + 1)
    ELSE LET c == Find(s, cwd) IN
    IF c # None THEN SliceFrom(s, c[1] + Len(cwd) + 1)
    ELSE LET r == Find(s, "/ruby/") IN
    IF r # None
    THEN LET t == SliceFrom(s, r[1] + 6)
             k == Find(t, "/")
         IN IF k # None THEN SliceFrom(t, k[1] + 1) ELSE t
    ELSE s

\* the nested match of rbspy_snapshot on s.find(cwd), s.find("/gems/"),
\* s.find("/ruby/") and the find("/") that follows it
Shorten(s, cwd) ==
    LET c == Find(s, cwd) IN
    IF c # None THEN SliceFrom(s, c[1] + Len(cwd) + 1)
    ELSE LET g == Find(s, "/gems/") IN
    IF g # None THEN SliceFrom(s, g[1] + 1)
    ELSE LET r == Find(s, "/ruby/") IN
    IF r # None
    THEN LET t == SliceFrom(s, r[1] + 6)
             k == Find(t, "/")
         IN IF k # None THEN SliceFrom(t, k[1] + 1) ELSE t
    ELSE s

\* faulty variant: the frames are visited in the order of the trace
IterRev_Forward(frames) == frames

\* trace.iter().rev()
IterRev(frames) == [i \in 1..Len(frames) |-> frames[Len(frames) + 1 - i]]

\* faulty variant: a separator follows every string, the last one too
RECURSIVE Join_Trailing(_, _)
Join_Trailing(list, sep) ==
    IF list = <<>> THEN "" ELSE Head(list) \o sep \o Join_Trailing(Tail(list), sep)

\* string_list.join(sep)
RECURSIVE Join(_, _)
Join(list, sep) ==
    IF list = <<>> THEN ""
    ELSE IF Len(list) = 1 THEN Head(list)
    ELSE Head(list) \o sep \o Join(Tail(list), sep)

\* for x in trace.iter().rev() { s = x.to_string(); ..; string_list.push(s) }
StringList(frames, cwd) ==
    LET rev == IterRev(frames)
    IN [i \in 1..Len(rev) |-> Shorten(FrameToString(rev[i]), cwd)]

\* let joined = string_list.join(";")
Joined(frames, cwd) == Join(StringList(frames, cwd), ";")

(***************************************************************************)
(* lib.rs: the inputs of the C ABI calls.                                  *)
(***************************************************************************)
\* env::current_dir(), as cwd.to_str().unwrap_or("")
Cwds == {"/w", ""}

\* frames of the target, one for each way the path shortening can go
FrameApp == [name |-> "a", relative_path |-> "/w/l.rb", lineno |-> 3]
FrameGem == [name |-> "g", relative_path |-> "/o/gems/r.rb", lineno |-> 7]
FrameRuby == [name |-> "r", relative_path |-> "/o/ruby/2/s.rb", lineno |-> 12]
FrameRubyFlat == [name |-> "t", relative_path |-> "/ruby/e", lineno |-> 1]
FrameNone == [name |-> "n", relative_path |-> "x.rb", lineno |-> 5]
FrameCwdGem == [name |-> "c", relative_path |-> "/w/gems/q", lineno |-> 2]
FrameGemRuby == [name |-> "h", relative_path |-> "/gems/ruby/1/z", lineno |-> 4]
FrameCwdPrefix == [name |-> "p", relative_path |-> "/wx/y", lineno |-> 6]
FrameCwdLast == [name |-> "e", relative_path |-> "/b/w", lineno |-> 9]
FrameSemicolon == [name |-> "s", relative_path |-> "k;j", lineno |-> 8]

Frames ==
    {FrameApp, FrameGem, FrameRuby, FrameRubyFlat, FrameNone, FrameCwdGem,
     FrameGemRuby, FrameCwdPrefix, FrameCwdLast, FrameSemicolon}

\* stacks of the target, innermost frame first
Traces ==
    {<<>>} \cup {<<f>> : f \in Frames}
    \cup {<<f, g>> : f, g \in {FrameApp, FrameNone, FrameSemicolon}}
    \cup {<<FrameGem, FrameApp, FrameNone>>}

\* the stacks sampled while two threads call the C ABI at once
FewTraces == {<<FrameApp, FrameNone>>}

\* buffer lengths the caller passes
Lens == {0, 5, 6, 7, MaxBuf}
FewLens == {0, MaxBuf}
ErrLens == {0, Len(ErrorBufferTooSmall) - 1, Len(ErrorBufferTooSmall), MaxBuf}
FewErrLens == {0, MaxBuf}
Blockings == {0, 1}

(***************************************************************************)
(* lib.rs: copy_error, rbspy_init, rbspy_cleanup, rbspy_snapshot.          *)
(***************************************************************************)
\* err.to_string() of an anyhow error: its outermost context, or, without one,
\* the Display of the error itself
ErrorText(r) ==
    IF r.ctx # <<>> THEN r.ctx[Len(r.ctx)]
    ELSE IF r.e = ProcessEnded THEN "Process isn't running"
    ELSE "Copy error"

\* the getter that initialize built
Built(g) == [kind |-> "Built", getter |-> g]

\* what the targets of the C ABI's callers answer to a bootstrap: a 2.7.5 or a
\* 3.2.0 whose global symbols are found whenever they are looked up and whose
\* addresses are the same in every target, or a version read that fails
AbiBootAnswers ==
    LET first == CHOOSE x \in Addrs \ {0} : \A y \in Addrs \ {0} : x <= y
    IN
    {a \in BootAnswers(alive, None) :
        /\ a.ver \in {NotAsked, [ok |-> "2.7.5"], [ok |-> "3.2.0"], [err |-> "NotReady"]}
        /\ a.gs # [err |-> "NotFound"]
        /\ \A f \in {"cta", "vm", "gs"} : IsOk(a[f]) => a[f].ok = first}

\* initialize(pid, blocking != 0): what it returns, from the iteration in which
\* the loop of get_process_ruby_state ends (the first, or one past the retries).
\* The call passes no force_version and no on_cpu.
InitializeResults(pid, lock_process) ==
    LET b == [NoBoot EXCEPT !.pid = pid]
        ends == {st \in {GetProcessRubyStateIter(i, pid, None, ans) :
                            i \in {0, RetryCeiling, RetryCeiling + 1},
                            ans \in AbiBootAnswers} : st.out # "sleep"}
    IN
    {CASE st.out = "ok" -> Built(NewGetter(b, st, lock_process, FALSE))
       [] st.out = "err" -> Err(st.e, <<"get ruby VM state">>)
       [] st.out = "panic" -> st.panic : st \in ends}

\* getter.get_trace(): what it returns and what it leaves of the getter (a call
\* that reinitialized has bumped reinit_count; one whose reinitialize met a
\* version without table entry has panicked)
GetTraceEffects(g, traces) ==
    LET first == {OkTrace(Some([pid |-> Some(g.pid), frames |-> t])) : t \in traces}
                 \cup {OkTrace(None), Err(ProcessEnded, <<>>),
                       Err([err |-> "NoProcessState", version |-> g.stack_trace_function],
                           <<"get ruby VM state", "reinitialize">>)}
        second == {OkTrace(Some([pid |-> None, frames |-> t])) : t \in traces}
                  \cup {Err(ProcessEnded, <<"get trace from current thread">>)}
    IN
    {[res |-> r, getter |-> g] : r \in first \cup {Panic("3.2.0")}}
    \cup (IF g.reinit_count < MaxReinit
          THEN {[res |-> r, getter |-> Reinitialized(g, g)] : r \in second}
          ELSE {})

\* faulty variant: the message is written whatever the length of the buffer
CopyErrorCall_Unchecked(err_len, err_str) ==
    [recurse |-> FALSE, written |-> err_str, ret |-> -Len(err_str)]

\* one call of copy_error: it calls itself with the literal, or writes and returns
CopyErrorCall(err_len, err_str) ==
    IF Len(err_str) > err_len
    THEN [recurse |-> TRUE, written |-> "", ret |-> 0]
    ELSE [recurse |-> FALSE, written |-> err_str, ret |-> -Len(err_str)]

\* the process has died of a panic or of a stack overflow
Aborted == \E c \in Callers : callers[c].pc \in {"panicked", "overflow"}

\* what a call that returns leaves for its caller
Returned(k, ret, out, err) ==
    [op |-> k.op, pid |-> k.pid, ret |-> ret, out |-> out, err |-> err, len |-> k.len,
     err_len |-> k.err_len, msg |-> k.msg, trace |-> k.trace, cwd |-> k.cwd,
     getter |-> k.getter, cause |-> k.cause]

\* faulty variant: HASHMAP is entered without waiting for its lock
CanLock_Always(m) == TRUE

\* HASHMAP.lock(): the call goes on when no other call holds the lock
CanLock(m) == m = "free"

\* drop(map): the guard of HASHMAP, if this call holds it
Unlock(c) == IF mutex = c THEN "free" ELSE mutex

\* the call of copy_error(err_ptr, err_len, err_str) by the call k
StartCopyError(k, err_str) ==
    [k EXCEPT !.pc = "copy_error", !.err_str = err_str, !.msg = err_str, !.depth = 0]

\* rbspy_init is entered: initialize(pid, blocking != 0) starts, HASHMAP not locked
RbspyInitEnter(c, pid, blocking, err_len) ==
    /\ ~Aborted
    /\ callers[c].pc = "idle"
    /\ callers' = [callers EXCEPT ![c] =
                      [Idle EXCEPT !.pc = "bootstrap", !.op = "rbspy_init", !.pid = pid,
                                   !.blocking = blocking, !.err_len = err_len]]
    /\ last' = NoReturn
    /\ UNCHANGED <<registry, mutex>>
    /\ UNCHANGED corevars

\* faulty variant: a failed bootstrap evicts the getter registered for the pid
RegistryOnError_Evicts(reg, pid) == [reg EXCEPT ![pid] = NoGetter]

\* Err(err) => copy_error(..): the arm does not touch HASHMAP
RegistryOnError(reg, pid) == reg

\* initialize returns: match initialize(..) { Ok(getter) => .., Err(err) => .. }
InitBootstrap(c) ==
    /\ ~Aborted
    /\ callers[c].pc = "bootstrap"
    /\ \E r \in InitializeResults(callers[c].pid, callers[c].blocking # 0) :
         CASE r.kind = "Built" ->
                /\ callers' = [callers EXCEPT ![c] = [@ EXCEPT !.pc = "insert",
                                                                !.getter = r.getter]]
                /\ UNCHANGED registry
           [] r.kind = "Err" ->
                /\ callers' = [callers EXCEPT ![c] =
                                  StartCopyError([@ EXCEPT !.cause = Some(r.e)],
                                                 ErrorText(r))]
                /\ registry' = RegistryOnError(registry, callers[c].pid)
           [] r.kind = "Panic" ->
                /\ callers' = [callers EXCEPT ![c] = [@ EXCEPT !.pc = "panicked"]]
                /\ UNCHANGED registry
    /\ UNCHANGED <<mutex, last>>
    /\ UNCHANGED corevars

\* let mut map = HASHMAP.lock().unwrap(); map.insert(pid, getter); 1
InitInsert(c) ==
    /\ ~Aborted
    /\ callers[c].pc = "insert"
    /\ CanLock(mutex)
    /\ registry' = [registry EXCEPT ![callers[c].pid] = callers[c].getter]
    /\ last' = Returned(callers[c], 1, "", "")
    /\ callers' = [callers EXCEPT ![c] = Idle]
    /\ UNCHANGED mutex
    /\ UNCHANGED corevars

\* faulty variant: the whole map is emptied
MapRemove_Clear(reg, pid) == EmptyRegistry

\* map.remove(&pid)
MapRemove(reg, pid) == [reg EXCEPT ![pid] = NoGetter]

\* rbspy_cleanup: let mut map = HASHMAP.lock().unwrap(); map.remove(&pid); 1
RbspyCleanup(c, pid) ==
    /\ ~Aborted
    /\ callers[c].pc = "idle"
    /\ CanLock(mutex)
    /\ registry' = MapRemove(registry, pid)
    /\ last' = Returned([Idle EXCEPT !.op = "rbspy_cleanup", !.pid = pid], 1, "", "")
    /\ UNCHANGED <<mutex, callers>>
    /\ UNCHANGED corevars

\* rbspy_snapshot is entered: let mut map = HASHMAP.lock().unwrap()
RbspySnapshotEnter(c, pid, len, err_len) ==
    /\ ~Aborted
    /\ callers[c].pc = "idle"
    /\ CanLock(mutex)
    /\ mutex' = c
    /\ callers' = [callers EXCEPT ![c] =
                      [Idle EXCEPT !.pc = "snapshot", !.op = "rbspy_snapshot", !.pid = pid,
                                   !.len = len, !.err_len = err_len]]
    /\ last' = NoReturn
    /\ UNCHANGED registry
    /\ UNCHANGED corevars

\* match map.get_mut(&pid): the getter registered for pid, or none
SnapshotLookup(c) ==
    /\ ~Aborted
    /\ callers[c].pc = "snapshot"
    /\ LET k == callers[c]
           g == registry[k.pid]
       IN
       callers' = [callers EXCEPT ![c] =
                      IF g.ready
                      THEN [k EXCEPT !.pc = "sampling", !.getter = g]
                      ELSE StartCopyError(k, "could not find spy for this pid")]
    /\ UNCHANGED <<registry, mutex, last>>
    /\ UNCHANGED corevars

\* rbspy_snapshot from getter.get_trace() to its return or to its call of
\* copy_error; the getter is the one map.get_mut handed out, changed in place
SnapshotSample(c, traces) ==
    /\ ~Aborted
    /\ callers[c].pc = "sampling"
    /\ LET k == [callers[c] EXCEPT !.getter = NoGetter] IN
       \E eff \in GetTraceEffects(callers[c].getter, traces) :
            /\ registry' = [registry EXCEPT ![k.pid] = eff.getter]
            /\ CASE eff.res.kind = "Panic" ->
                      /\ callers' = [callers EXCEPT ![c] = [k EXCEPT !.pc = "panicked"]]
                      /\ UNCHANGED <<mutex, last>>
                 [] eff.res.kind = "Err" ->
                      /\ callers' = [callers EXCEPT ![c] =
                                        StartCopyError([k EXCEPT !.cause = Some(eff.res.e)],
                                                       ErrorText(eff.res))]
                      /\ UNCHANGED <<mutex, last>>
                 [] eff.res.kind = "Ok" /\ eff.res.val = None ->
                      /\ callers' = [callers EXCEPT ![c] = StartCopyError(k, "failure")]
                      /\ UNCHANGED <<mutex, last>>
                 [] eff.res.kind = "Ok" /\ eff.res.val # None ->
                      \E cwd \in Cwds :
                         LET trace == eff.res.val[1]
                             joined == Joined(trace.frames, cwd)
                             l == Len(joined)
                             kt == [k EXCEPT !.trace = Some(trace), !.cwd = cwd]
                         IN
                         IF k.len < l
                         THEN /\ callers' = [callers EXCEPT ![c] =
                                                StartCopyError(kt, "buffer is too small")]
                              /\ UNCHANGED <<mutex, last>>
                         ELSE /\ last' = Returned(kt, l, joined, "")
                              /\ callers' = [callers EXCEPT ![c] = Idle]
                              /\ mutex' = Unlock(c)
    /\ UNCHANGED corevars

\* one call of copy_error, by rbspy_init or by rbspy_snapshot
CopyError(c) ==
    /\ ~Aborted
    /\ callers[c].pc = "copy_error"
    /\ LET k == callers[c]
           r == CopyErrorCall(k.err_len, k.err_str)
       IN
       IF r.recurse
       THEN /\ callers' = [callers EXCEPT ![c] =
                              IF k.depth = MaxStack
                              THEN [k EXCEPT !.pc = "overflow"]
                              ELSE [k EXCEPT !.err_str = ErrorBufferTooSmall,
                                             !.depth = @ + 1]]
            /\ UNCHANGED <<mutex, last>>
       ELSE /\ last' = Returned(k, r.ret, "", r.written)
            /\ callers' = [callers EXCEPT ![c] = Idle]
            /\ mutex' = Unlock(c)
    /\ UNCHANGED registry
    /\ UNCHANGED corevars

\* two threads of the host call the C ABI for one target
AbiNext ==
    \/ \E c \in Callers, blocking \in Blockings, err_len \in FewErrLens :
          RbspyInitEnter(c, TargetPid, blocking, err_len)
    \/ \E c \in Callers : InitBootstrap(c)
    \/ \E c \in Callers : InitInsert(c)
    \/ \E c \in Callers : RbspyCleanup(c, TargetPid)
    \/ \E c \in Callers, len \in FewLens, err_len \in FewErrLens :
          RbspySnapshotEnter(c, TargetPid, len, err_len)
    \/ \E c \in Callers : SnapshotLookup(c)
    \/ \E c \in Callers : SnapshotSample(c, FewTraces)
    \/ \E c \in Callers : CopyError(c)

AbiSpec == Init /\ [][AbiNext]_vars

\* one thread of the host calls the C ABI, with every trace and buffer length
SnapshotNext ==
    \/ \E pid \in Pids, blocking \in Blockings, err_len \in ErrLens :
          RbspyInitEnter("c1", pid, blocking, err_len)
    \/ InitBootstrap("c1")
    \/ InitInsert("c1")
    \/ \E pid \in Pids : RbspyCleanup("c1", pid)
    \/ \E pid \in Pids, len \in Lens, err_len \in ErrLens :
          RbspySnapshotEnter("c1", pid, len, err_len)
    \/ SnapshotLookup("c1")
    \/ SnapshotSample("c1", Traces)
    \/ CopyError("c1")

SnapshotSpec == Init /\ [][SnapshotNext]_vars

(***************************************************************************)
(* Properties.                                                             *)
(***************************************************************************)
\* a get_trace call has returned and no other call has started since
TraceReturned == pc = "idle" /\ call.gate # "none"

\* the first get_trace_from_current_thread() of the call failed
FirstFailed == call.r1.kind = "Err"

\* ... with InvalidAddressError at the getter's current_thread_addr_location
FirstWasStale == FirstFailed /\ call.r1.e = InvalidAddressError(call.ctal0)

\* the bootstrap run by the call's reinitialize succeeded
ReinitSucceeded == boot.caller = "reinitialize" /\ boot.last.out = "ok"

\* C1: when the first read of a get_trace call fails with InvalidAddressError at
\* current_thread_addr_location, the call bootstraps exactly once for the same
\* pid; if the bootstrap succeeds reinit_count has grown by exactly 1, the read
\* attempt is repeated exactly once and its outcome is what the call returns;
\* no call bootstraps more than once or raises reinit_count by more than 1.
C1_ReinitOnce ==
    /\ call.nboot <= 1
    /\ call.attempt <= 2
    /\ getter.ready => getter.reinit_count <= call.rc0 + 1
    /\ (TraceReturned /\ FirstWasStale) =>
          /\ call.nboot = 1
          /\ boot.caller = "reinitialize"
          /\ boot.pid = getter.pid
          /\ ReinitSucceeded =>
                /\ getter.reinit_count = call.rc0 + 1
                /\ call.attempt = 2
                /\ call.nread <= 2
                /\ result = SecondOutcome(call.r2)
          /\ ~ReinitSucceeded =>
                /\ getter.reinit_count = call.rc0
                /\ call.attempt = 1
                /\ result.kind \in {"Err", "Panic"}
    /\ (TraceReturned /\ ~FirstWasStale) =>
          call.nboot = 0 /\ getter.reinit_count = call.rc0

C1_Witness ==
    /\ TraceReturned /\ FirstWasStale /\ ReinitSucceeded
    /\ getter.reinit_count = call.rc0 + 1
    /\ call.nread = 2
    /\ result.kind = "Ok" /\ result.val # None

\* C2: every Ok(Some(t)) that get_trace returns has t.pid = Some(pid of the
\* getter's process), on the first-read path and on the retry path alike.
C2_TracePidStamped ==
    (TraceReturned /\ result.kind = "Ok" /\ result.val # None) =>
        result.val[1].pid = Some(getter.pid)

\* C3: when the first read attempt fails with anything but InvalidAddressError
\* at current_thread_addr_location (another address, another memory error, a
\* failed lock), nothing is reinitialized, reinit_count is unchanged, exe() is
\* probed once, and the call returns ProcessEnded if the probe failed and the
\* original error otherwise.
C3_OtherErrorsProbe ==
    /\ (FirstFailed /\ ~FirstWasStale) =>
          /\ call.nboot = 0
          /\ getter.reinit_count = call.rc0
          /\ pc \in {"probe", "idle"}
          /\ call.attempt = 1
    /\ (TraceReturned /\ FirstFailed /\ ~FirstWasStale) =>
          /\ call.nprobe = 1
          /\ call.exe = "err" => result = Err(ProcessEnded, <<>>)
          /\ call.exe = "ok" => result = call.r1
    /\ pc = "probe" => (FirstFailed /\ ~FirstWasStale /\ call.nprobe = 0)

C3_Witness ==
    /\ TraceReturned /\ FirstFailed
    /\ call.r1.e.err = "InvalidAddressError"
    /\ call.r1.e.addr # call.ctal0
    /\ call.exe = "ok"
    /\ result = call.r1

\* the target had exited when the get_trace call began
DeadAtStart == ~call.aliveAtStart

\* C4, as claimed: once the target has exited, every get_trace call returns
\* ProcessEnded, whatever lock_process and on_cpu are and whichever address the
\* failing read reports.
C4_AlwaysProcessEnded ==
    (TraceReturned /\ DeadAtStart) => result = Err(ProcessEnded, <<>>)

\* C4, amended: once the target has exited, a get_trace call returns
\* ProcessEnded whenever it gets past the on-CPU gate and its first read attempt
\* fails with anything but InvalidAddressError at current_thread_addr_location;
\* a call stopped by the gate returns the gate's value (the thread-listing
\* error or no sample), and a call whose first read reports InvalidAddressError
\* at current_thread_addr_location returns the error of the failed reinitialize.
C4_ProcessEndedPastGate ==
    (TraceReturned /\ DeadAtStart) =>
        /\ call.gate \in {"inactive"} => result = OkTrace(None)
        /\ call.gate \in {"error"} => result.kind = "Err" /\ result.e # ProcessEnded
        /\ call.gate \in {"off", "active"} =>
              /\ FirstFailed
              /\ ~FirstWasStale => result = Err(ProcessEnded, <<>>)
              /\ FirstWasStale =>
                    /\ result.kind = "Err"
                    /\ result.ctx = <<"get ruby VM state", "reinitialize">>
                    /\ result.e # ProcessEnded

C4_Witness ==
    /\ TraceReturned /\ DeadAtStart
    /\ getter.lock_process /\ getter.on_cpu
    /\ call.gate = "active"
    /\ ~FirstWasStale
    /\ result = Err(ProcessEnded, <<>>)

\* C5: with on_cpu set and no thread reporting active(), get_trace returns
\* Ok(None) without having locked, read or reinitialized; and whenever a call of
\* an on_cpu getter holds or has taken the lock, the gate was passed first.
C5_GateBeforeFreeze ==
    /\ call.gate = "inactive" =>
          /\ getter.on_cpu
          /\ pc = "idle"
          /\ result = OkTrace(None)
          /\ call.attempt = 0 /\ call.nlock = 0 /\ call.nread = 0 /\ call.nboot = 0
          /\ ~frozen
    /\ (getter.ready /\ getter.on_cpu /\ (frozen \/ call.nlock > 0 \/ call.nread > 0)) =>
          call.gate = "active"

C5_Witness ==
    /\ getter.ready
    /\ getter.on_cpu /\ getter.lock_process
    /\ call.gate = "inactive"
    /\ pc = "idle"
    /\ result = OkTrace(None)

\* C6: with lock_process set, whenever a get_trace call has returned (with a
\* trace, no sample, an error, ProcessEnded, a failed reinitialize or the
\* retry's outcome) the target is not frozen.
C6_ReleasedOnReturn ==
    pc = "idle" => ~frozen

C6_Witness ==
    /\ TraceReturned
    /\ getter.lock_process
    /\ call.nlock >= 1
    /\ result.kind = "Err"
    /\ ~frozen

\* C7, as claimed: with lock_process set, no read of the target's memory made
\* on behalf of a get_trace call, the reads of a re-bootstrap included, happens
\* while the target is not frozen.
C7_AllReadsFrozen ==
    (getter.ready /\ getter.lock_process) =>
        call.unfrozenStackReads = 0 /\ call.unfrozenReads = 0

\* C7, amended: with lock_process set, every stack-trace read of a get_trace
\* call is made with the target frozen, the freeze being taken before the read
\* and released after it; the version read of a re-bootstrap is made with the
\* target not frozen.
C7_StackReadsFrozen ==
    (getter.ready /\ getter.lock_process) =>
        /\ call.unfrozenStackReads = 0
        /\ pc \in {"read", "exit"} <=> frozen
        /\ call.nlock >= call.nread
        /\ pc \in {"boot", "boot_sleep"} => ~frozen

C7_Witness ==
    /\ TraceReturned
    /\ getter.lock_process
    /\ call.nread = 2 /\ call.nlock = 2
    /\ call.unfrozenReads = 1
    /\ call.unfrozenStackReads = 0

\* the bootstrap gave up after too many failed iterations
BootExhausted ==
    /\ boot.last.out = "err"
    /\ boot.last.e.err \in {"NoRubyVersion", "PermissionsHint", "NoProcessState"}

\* C8: one run of get_process_ruby_state sleeps at most 100 times and gives up
\* on the failed iteration that takes the retry counter above 100 (its 101st),
\* whichever mixture of version-read and address-lookup failures it meets.
C8_AtMostCeilingSleeps ==
    /\ boot.sleeps <= RetryCeiling
    /\ BootExhausted => boot.iters = RetryCeiling + 1

\* the last bootstrap returned Ok and its state is the getter's
BootSucceeded == boot.last.out = "ok"

\* C9: after a successful bootstrap, a version of 3.0.0 or more has slot 0 and
\* the current-thread finder was not called; a version below 3.0.0 has a
\* non-zero slot, the one the finder returned.
C9_SlotMatchesVersion ==
    BootSucceeded =>
        /\ getter.ready
        /\ getter.stack_trace_function = boot.last.version[1]
        /\ boot.last.version[1] \in {"3.0.0", "3.2.0"} =>
              /\ getter.current_thread_addr_location = 0
              /\ ~boot.last.finder
        /\ boot.last.version[1] \in {"2.7.5", "2.7.8"} =>
              /\ getter.current_thread_addr_location # 0
              /\ boot.last.finder
              /\ boot.last.finderAnswer = [ok |-> getter.current_thread_addr_location]

C9_Witness ==
    /\ BootSucceeded
    /\ boot.caller = "reinitialize"
    /\ boot.last.version = Some("2.7.5")
    /\ getter.current_thread_addr_location # 0
    /\ getter.reinit_count = 1

\* a bootstrap has ended, and its last iteration used this version
BootEndedWith(v) ==
    /\ pc # "boot" /\ pc # "boot_sleep"
    /\ boot.last.out \in {"ok", "err", "panic"}
    /\ boot.last.version = Some(v)

\* C10: a bootstrap whose version is not a supported key ends by returning an
\* UnsupportedVersion error that carries the version.
C10_UnsupportedIsReturned ==
    \A v \in UnsupportedVersions :
        BootEndedWith(v) =>
            /\ result.kind = "Err"
            /\ result.e = [err |-> "UnsupportedVersion", version |-> v]

\* a bootstrap that was given a version to use
Forced == boot.force_version # None

MidCall(c) == callers[c].pc \in {"insert", "copy_error", "snapshot", "sampling"}

\* C12: every C ABI call holds the registry mutex from its start to its return,
\* so that of two calls made at once all the work of one comes before or after
\* all the work of the other: two calls are never both part-way through.
C12_CallsSerialized ==
    \A c, d \in Callers :
        c # d => ~(MidCall(c) /\ MidCall(d))

\* C13: rbspy_init(pid) returns 1 exactly when bootstrap succeeds, and then the
\* registry maps pid to the getter it built, with reinit_count 0; when bootstrap
\* fails it returns the negative of the number of bytes written to the error
\* buffer (so it does return).
C13_InitReturns ==
    /\ \A c \in Callers :
          callers[c].op = "rbspy_init" => callers[c].pc \notin {"overflow", "panicked"}
    /\ last.op = "rbspy_init" =>
          /\ last.ret = 1 <=> last.getter.ready
          /\ last.ret = 1 =>
                /\ registry[last.pid] = last.getter
                /\ last.getter.reinit_count = 0
          /\ last.ret # 1 => last.ret = -Len(last.err) /\ last.err # ""

\* C14: copy_error returns for every message and every err_len >= 0: it calls
\* itself at most once, with the literal, and when the literal does not fit
\* either it returns instead of calling itself again.
C14_CopyErrorReturns ==
    \A c \in Callers :
        /\ callers[c].pc # "overflow"
        /\ callers[c].pc = "copy_error" => callers[c].depth <= 1

\* the call that returned last went through copy_error
ErrorReturned == last.msg # ""

\* C15: whenever copy_error returns, it wrote at most err_len bytes, the bytes
\* are the message it was given or the literal "error buffer is too small", and
\* it returned minus the number of bytes written.
C15_CopyErrorWrites ==
    ErrorReturned =>
        /\ Len(last.err) <= last.err_len
        /\ last.err \in {last.msg, ErrorBufferTooSmall}
        /\ last.ret = -Len(last.err)

\* a message that did not fit was replaced by the literal, which fitted exactly
C15_Witness ==
    /\ ErrorReturned
    /\ last.msg # ErrorBufferTooSmall
    /\ last.err = ErrorBufferTooSmall
    /\ last.err_len = Len(ErrorBufferTooSmall)

\* the rbspy_snapshot that returned last had sampled a trace
Sampled == last.op = "rbspy_snapshot" /\ last.trace # None

\* the frames of that trace, as get_trace returned them
SampledFrames == last.trace[1].frames

\* that rbspy_snapshot returned the payload
PayloadReturned == Sampled /\ ~ErrorReturned

\* C16: for rbspy_snapshot on a registered pid whose sample yields a trace with
\* payload length L: with len < L it returns a negative value and writes nothing
\* to the output buffer, with len >= L it writes the L payload bytes and returns
\* L, and it never writes more than len bytes.
C16_SnapshotBoundary ==
    /\ \A c \in Callers :
          callers[c].op = "rbspy_snapshot" /\ callers[c].trace # None
              => callers[c].pc # "overflow"
    /\ Sampled =>
          LET payload == Joined(SampledFrames, last.cwd)
          IN
          /\ last.len < Len(payload) => last.ret < 0 /\ last.out = ""
          /\ last.len >= Len(payload) => last.ret = Len(payload) /\ last.out = payload
          /\ Len(last.out) <= last.len

\* the segment of the payload rendered from frame i of the sampled trace
\* (frame 1 is the innermost frame, the last one the outer-most)
SegmentOf(i) == Shorten(FrameToString(SampledFrames[i]), last.cwd)

StartsWith(s, p) == Len(p) <= Len(s) /\ SubSeq(s, 1, Len(p)) = p
EndsWith(s, p) == Len(p) <= Len(s) /\ SubSeq(s, Len(s) - Len(p) + 1, Len(s)) = p

\* C17 (as stated): the outer-most frame of the sampled stack is the last
\* segment of the payload.
C17_OutermostLast ==
    PayloadReturned /\ Len(SampledFrames) >= 1 =>
        LET n == Len(SampledFrames)
        IN
        /\ EndsWith(last.out, SegmentOf(n))
        /\ n >= 2 => EndsWith(last.out, ";" \o SegmentOf(n))

\* C17 (amended): the payload begins with the segment rendered from the
\* outer-most frame of the trace and ends with the segment rendered from its
\* innermost frame.
C17_OutermostFirst ==
    PayloadReturned /\ Len(SampledFrames) >= 1 =>
        LET n == Len(SampledFrames)
        IN
        /\ StartsWith(last.out, SegmentOf(n))
        /\ EndsWith(last.out, SegmentOf(1))
        /\ n >= 2 =>
              /\ StartsWith(last.out, SegmentOf(n) \o ";")
              /\ EndsWith(last.out, ";" \o SegmentOf(1))

\* a payload of a trace whose innermost and outer-most frames differ
C17_Witness ==
    /\ PayloadReturned
    /\ Len(SampledFrames) >= 2
    /\ SegmentOf(1) # SegmentOf(Len(SampledFrames))
    /\ last.cwd # ""

\* the number of ';' bytes in a string
Separators(s) == Cardinality({i \in 1..Len(s) : SubSeq(s, i, i) = ";"})

\* where segment k (from 0) starts in the payload of the sampled trace
RECURSIVE OffsetOf(_)
OffsetOf(k) ==
    IF k = 0 THEN 0
    ELSE OffsetOf(k - 1) + Len(SegmentOf(Len(SampledFrames) - (k - 1))) + 1

\* the payload holds, at the place of segment k, the rendering of frame n-1-k
\* (counted from 0) of the trace, after a ';' unless k = 0
SegmentsReversed ==
    LET n == Len(SampledFrames)
    IN
    \A k \in 0..(n - 1) :
        /\ SubSeq(last.out, OffsetOf(k) + 1, OffsetOf(k) + Len(SegmentOf(n - k)))
              = SegmentOf(n - k)
        /\ k >= 1 => SubSeq(last.out, OffsetOf(k), OffsetOf(k)) = ";"

\* C18 (as stated): for a trace of n frames the payload has n segments, taken
\* from the frames in reverse order, and n-1 separators.
C18_SegmentsAndSeparators ==
    PayloadReturned =>
        /\ SegmentsReversed
        /\ Separators(last.out) = Len(SampledFrames) - 1

\* C18 (amended): the payload is the renderings of frames n-1, .., 0 of the
\* trace in that order, each but the first after one ';', and nothing else; it
\* is empty for a trace without frames.
C18_ReversedJoin ==
    PayloadReturned =>
        LET n == Len(SampledFrames)
        IN
        /\ SegmentsReversed
        /\ Len(last.out) = IF n = 0 THEN 0 ELSE OffsetOf(n) - 1
        /\ (\A i \in 1..n : Separators(SegmentOf(i)) = 0) /\ n >= 1
              => Separators(last.out) = n - 1

\* a payload of three frames
C18_Witness ==
    /\ PayloadReturned
    /\ Len(SampledFrames) = 3
    /\ Separators(last.out) = 2

\* C19: every segment of the payload begins with the method name of its frame
\* followed by " - " and ends with ":" and the line number of the frame.
C19_SegmentForm ==
    PayloadReturned /\ Len(SampledFrames) >= 1 =>
        LET n == Len(SampledFrames)
        IN
        /\ StartsWith(last.out, SampledFrames[n].name \o " - ")
        /\ EndsWith(last.out, ":" \o ToString(SampledFrames[1].lineno))

\* pat occurs in s at byte i (from 0), and nowhere before
Occurs(s, pat, i) == i + Len(pat) <= Len(s) /\ SubSeq(s, i + 1, i + Len(pat)) = pat
FirstAt(s, pat, i) == Occurs(s, pat, i) /\ \A j \in 0..(i - 1) : ~Occurs(s, pat, j)
Contains(s, pat) == \E i \in 0..Len(s) : Occurs(s, pat, i)

\* r is s without its first k bytes
Stripped(s, r, k) == k <= Len(s) /\ r = SubSeq(s, k + 1, Len(s))

\* the payload of a trace of one frame: the rendered frame and its segment
OneFrame == PayloadReturned /\ Len(SampledFrames) = 1

\* C20 (as stated): exactly one rule in fixed priority: a frame that contains the
\* working directory is stripped through that directory and the separator that
\* follows it; otherwise one that contains "/gems/" starts at "gems/"; otherwise
\* one that contains "/ruby/<token>/" is stripped through the separator after
\* <token>; otherwise it is unchanged.
C20_RulesAsStated ==
    OneFrame =>
        LET s == FrameToString(SampledFrames[1])
            r == last.out
            cwd == last.cwd
            rubyToken == \E i \in 0..Len(s) :
                            Occurs(s, "/ruby/", i) /\ Contains(SubSeq(s, i + 7, Len(s)), "/")
        IN
        IF Contains(s, cwd)
        THEN \E i \in 0..Len(s) :
                /\ FirstAt(s, cwd, i)
                /\ Occurs(s, "/", i + Len(cwd))
                /\ Stripped(s, r, i + Len(cwd) + 1)
        ELSE IF Contains(s, "/gems/")
        THEN \E i \in 0..Len(s) :
                FirstAt(s, "/gems/", i) /\ Stripped(s, r, i + 1) /\ StartsWith(r, "gems/")
        ELSE IF rubyToken
        THEN \E i \in 0..Len(s), j \in 0..Len(s) :
                /\ FirstAt(s, "/ruby/", i)
                /\ FirstAt(SubSeq(s, i + 7, Len(s)), "/", j)
                /\ Stripped(s, r, i + 6 + j + 1)
        ELSE r = s

\* C20 (amended): exactly one rule in fixed priority: a frame that contains the
\* working directory loses everything through its first occurrence and the one
\* byte after it, whatever that byte is; otherwise one that contains "/gems/"
\* starts at the "gems/" of its first occurrence; otherwise one that contains
\* "/ruby/" loses everything through its first occurrence and then, if a "/"
\* follows, everything through the first such "/"; otherwise it is unchanged.
C20_ShortenRules ==
    OneFrame =>
        LET s == FrameToString(SampledFrames[1])
            r == last.out
            cwd == last.cwd
        IN
        IF Contains(s, cwd)
        THEN \E i \in 0..Len(s) : FirstAt(s, cwd, i) /\ Stripped(s, r, i + Len(cwd) + 1)
        ELSE IF Contains(s, "/gems/")
        THEN \E i \in 0..Len(s) :
                FirstAt(s, "/gems/", i) /\ Stripped(s, r, i + 1) /\ StartsWith(r, "gems/")
        ELSE IF Contains(s, "/ruby/")
        THEN \E i \in 0..Len(s) :
                /\ FirstAt(s, "/ruby/", i)
                /\ LET t == SubSeq(s, i + 7, Len(s))
                   IN IF Contains(t, "/")
                      THEN \E j \in 0..Len(t) :
                              FirstAt(t, "/", j) /\ Stripped(s, r, i + 6 + j + 1)
                      ELSE r = t
        ELSE r = s

\* a frame that contains both the working directory and "/gems/" was shortened
C20_Witness ==
    /\ OneFrame
    /\ last.cwd # ""
    /\ Contains(FrameToString(SampledFrames[1]), last.cwd)
    /\ Contains(FrameToString(SampledFrames[1]), "/gems/")
    /\ last.out # FrameToString(SampledFrames[1])

\* the step is a whole call of rbspy_cleanup
CleanupStep == last'.op = "rbspy_cleanup" /\ callers' = callers /\ last' # last

\* C21: every call of rbspy_cleanup returns 1, writes nothing to the error
\* buffer (nor to any other), removes the entry of its pid when there is one
\* and leaves every other entry as it was; on a pid without entry it changes
\* nothing and still returns 1.
C21_Cleanup ==
    [][CleanupStep =>
          /\ last'.ret = 1
          /\ last'.err = ""
          /\ last'.out = ""
          /\ ~registry'[last'.pid].ready
          /\ \A p \in Pids \ {last'.pid} : registry'[p] = registry[p]
          /\ (~registry[last'.pid].ready => registry' = registry)]_vars

\* rbspy_cleanup has removed one pid's entry while another pid stays registered
C21_Witness ==
    /\ last.op = "rbspy_cleanup"
    /\ last.ret = 1
    /\ ~registry[last.pid].ready
    /\ \E p \in Pids \ {last.pid} : registry[p].ready

\* rbspy_init has returned after initialize failed for the cause named
InitFailedWith(e) ==
    /\ last.op = "rbspy_init"
    /\ last.cause # None
    /\ last.cause[1].err = e

\* C22: when opening the target handle fails, the call of rbspy_init that ran
\* the bootstrap returns a negative value and the message in its error buffer
\* references the pid.
C22_OpenFailureNamesPid ==
    /\ InitFailedWith("NoProcess") =>
          /\ last.ret < 0
          /\ Contains(last.err, ToString(last.pid))
    /\ \A c \in Callers :
          (callers[c].op = "rbspy_init" /\ callers[c].cause # None
              /\ callers[c].cause[1].err = "NoProcess")
          => callers[c].pc # "overflow"

\* the bootstrap has given up on the version, the last detection having failed
\* for the cause named
VersionGivenUp(cause) ==
    /\ boot.last.out = "err"
    /\ "cause" \in DOMAIN boot.last.e
    /\ boot.last.e.cause = cause

\* C23: when the bootstrap gives up on a version detection that failed with
\* the address finder's PermissionDenied(pid), its error is the one carrying
\* the permissions hint (sudo, SYS_PTRACE), not the generic "Couldn't get ruby
\* version".
C23_PermissionHint ==
    VersionGivenUp("AddressFinderPermissionDenied") =>
        boot.last.e.err = "PermissionsHint"

\* the caller is inside getter.get_trace() (reinitialize included) on the
\* getter that map.get_mut handed out
Sampling(c) == callers[c].pc = "sampling"

\* C24: no two callers are inside get_trace on the getter of one pid at the
\* same time, and the getter a caller is sampling is the one the registry
\* holds for that pid: neither removed by rbspy_cleanup nor replaced by a
\* later rbspy_init while the sample runs.
C24_GetterSerialized ==
    \A c \in Callers :
        Sampling(c) =>
            /\ mutex = c
            /\ registry[callers[c].pid] = callers[c].getter
            /\ \A d \in Callers \ {c} :
                  ~(Sampling(d) /\ callers[d].pid = callers[c].pid)

\* one caller is sampling the getter of a pid while another caller, its
\* bootstrap for the same pid done, waits to replace that getter
C24_Witness ==
    \E c, d \in Callers :
        /\ c # d
        /\ Sampling(c)
        /\ callers[d].pc = "insert"
        /\ callers[d].pid = callers[c].pid
        /\ callers[d].getter # callers[c].getter

\* the step is the return of a call of rbspy_init whose bootstrap succeeded
InitSuccessStep(c) == callers[c].pc = "insert" /\ callers'[c].pc = "idle"

\* C25: the registry holds one entry per pid at most (it is a function of the
\* pid), empty at the start, and in every step: a successful rbspy_init leaves
\* its pid registered with the getter it built, whatever was registered
\* before; rbspy_cleanup leaves its pid unregistered; and no other step, of
\* rbspy_snapshot or of a failing rbspy_init, adds or removes a key. So a pid
\* is registered exactly when a successful rbspy_init of it was followed by no
\* rbspy_cleanup of it.
C25_RegistryKeys ==
    /\ \A p \in Pids : ~registry[p].ready
    /\ [][\A p \in Pids :
             IF \E c \in Callers : InitSuccessStep(c) /\ callers[c].pid = p
             THEN \E c \in Callers :
                     /\ InitSuccessStep(c)
                     /\ registry'[p] = callers[c].getter
                     /\ registry'[p].ready
             ELSE IF CleanupStep /\ last'.pid = p
             THEN ~registry'[p].ready
             ELSE registry'[p].ready = registry[p].ready]_vars

\* a successful rbspy_init has just registered its getter, while the other
\* pid's entry has been through a snapshot that reinitialized it and is still
\* registered
C25_Witness ==
    /\ last.op = "rbspy_init"
    /\ last.ret = 1
    /\ registry[last.pid].ready
    /\ registry[last.pid] = last.getter
    /\ \E q \in Pids \ {last.pid} :
          registry[q].ready /\ registry[q].reinit_count > 0

\* the step is the return of get_trace after the bootstrap run by
\* reinitialize returned an error
FailedReinitStep ==
    /\ pc = "boot"
    /\ boot.caller = "reinitialize"
    /\ boot'.last.out = "err"

\* C26: when the bootstrap run by reinitialize returns an error, get_trace
\* returns an error in that step, with no further read of the stack, and the
\* getter is as it was when the call began: no step of the call before the
\* success of a bootstrap changes any field of the getter.
C26_FailedReinitKeepsGetter ==
    [][/\ FailedReinitStep =>
             /\ pc' = "idle"
             /\ result'.kind = "Err"
             /\ getter' = getter
             /\ call'.nread = call.nread
             /\ call'.nread <= 1
       /\ getter' # getter => pc = "boot" /\ boot'.last.out = "ok"]_vars

\* get_trace has returned the error of a reinitialize whose bootstrap failed
\* after the first read of the stack
C26_Witness ==
    /\ TraceReturned
    /\ boot.caller = "reinitialize"
    /\ boot.last.out = "err"
    /\ result.kind = "Err"
    /\ call.nread = 1
    /\ getter.ready
    /\ getter.reinit_count = call.rc0

\* get_process_ruby_state is running or sleeping on behalf of reinitialize
ReinitBootstrapping == pc \in {"boot", "boot_sleep"} /\ boot.caller = "reinitialize"

\* the exe() liveness probe is about to run
Probing == pc = "probe"

\* C27: in every state where the bootstrap runs or sleeps for reinitialize, and
\* in every state where the exe() probe runs, the target is not frozen: the
\* lock taken for the first read attempt has been dropped.
C27_NotFrozenWhileBootstrapping ==
    (ReinitBootstrapping \/ Probing) => ~frozen

\* a getter that locks the target, having frozen it for the first read, is in
\* a retry sleep of the bootstrap run by reinitialize
C27_Witness ==
    /\ pc = "boot_sleep"
    /\ boot.caller = "reinitialize"
    /\ boot.sleeps >= 1
    /\ getter.lock_process
    /\ call.nlock = 1
    /\ call.nread = 1
    /\ ~frozen

\* the sample of the call was Ok(None): copy_error was entered with "failure"
NoTraceSampled(k) == k.op = "rbspy_snapshot" /\ k.msg = "failure"

\* C28: a call of rbspy_snapshot whose sample is Ok(None) returns, with a
\* negative value, "failure" in the error buffer and nothing in the output
\* buffer.
C28_NoTraceIsFailure ==
    /\ NoTraceSampled(last) =>
          /\ last.ret < 0
          /\ last.err = "failure"
          /\ last.out = ""
    /\ \A c \in Callers : NoTraceSampled(callers[c]) => callers[c].pc # "overflow"

\* the steps by which a call that has been entered goes on
CallerStep(c) ==
    \/ InitBootstrap(c)
    \/ InitInsert(c)
    \/ SnapshotLookup(c)
    \/ SnapshotSample(c, FewTraces)
    \/ CopyError(c)

\* the calling threads are scheduled fairly: a call that can go on does go on
FairAbiSpec ==
    Init /\ [][AbiNext]_vars /\ \A c \in Callers : WF_vars(CallerStep(c))

\* C29: under fair scheduling every call that has acquired the registry mutex
\* eventually returns and releases it, whatever the sample's outcome and the
\* error buffer's length.
C29_MutexReleased ==
    \A c \in Callers : (mutex = c) ~> (mutex # c)
====
